---------------------------- MODULE Spec2Model ----------------------------
(***************************************************************************)
(* Model of monai.apps.mmars: descriptor lookup (_get_model_spec), the     *)
(* nested configuration search (_get_val) and the load_from_mmar pipeline  *)
(* (download, load weights, locate the model config, resolve the class,    *)
(* instantiate, load the state dict).                                       *)
(*                                                                         *)
(* Python values are tagged records.  A Python str that the code scans     *)
(* (strip, lower, endswith, rsplit) is a tuple of one-character strings;   *)
(* dictionary keys, which the code only compares, are TLA+ strings.  A     *)
(* Python dict is the tuple of its entries in insertion order.             *)
(***************************************************************************)
EXTENDS Integers, Sequences, FiniteSets, TLC

VARIABLES
  pc,            \* position of the call being modelled
  \* ---- _get_model_spec
  idx,           \* argument of _get_model_spec
  spec_ret,      \* its outcome
  \* ---- _get_val
  input_dict,    \* argument of _get_val
  default,       \* argument of _get_val
  found,         \* value returned by _get_val
  \* ---- load_from_mmar: arguments
  item, mmar_dir, pretrained, weights_only,
  \* ---- load_from_mmar: environment
  weights_file,  \* what the deserializer yields for the weights file
  json_rel,      \* relative path (under model_dir) of the JSON config on disk
  json_doc,      \* its parsed content, or Missing when there is no such file
  \* ---- load_from_mmar: locals and observable effects
  model_dir, model_file, model_dict, model_config, model_cls, model_inst,
  opened,        \* paths passed to open()
  searched,      \* which config sources _get_val was applied to (1, 2, 3)
  warned,        \* warnings issued
  ret,           \* value returned
  err            \* exception that ended the call, NoErr if none

lookupVars == <<idx, spec_ret>>
getValVars == <<input_dict, default, found>>
argVars == <<item, mmar_dir, pretrained, weights_only>>
envVars == <<weights_file, json_rel, json_doc>>
localVars == <<model_dir, model_file, model_dict, model_config, model_cls, model_inst>>
effectVars == <<opened, searched, warned, ret, err>>
loadVars == <<argVars, envVars, localVars, effectVars>>
vars == <<pc, lookupVars, getValVars, loadVars>>

---------------------------------------------------------------------------
(* Python values *)

None == [t |-> "none"]
IntV(n) == [t |-> "int", n |-> n]
StrV(s) == [t |-> "str", s |-> s]
MapV(items) == [t |-> "map", items |-> items]
EmptyMap == MapV(<<>>)
Entry(k, v) == [k |-> k, v |-> v]

IsMapping(v) == v.t = "map"

\* Python truthiness (`not x`, `if x`)
Truthy(v) ==
  CASE v.t = "none" -> FALSE
    [] v.t = "int" -> v.n # 0
    [] v.t = "str" -> v.s # <<>>
    [] v.t = "map" -> v.items # <<>>
    [] OTHER -> TRUE

\* `key in d`
HasKey(d, key) == \E i \in 1..Len(d.items) : d.items[i].k = key

\* d[key], for a key that is present
Lookup(d, key) == d.items[CHOOSE i \in 1..Len(d.items) : d.items[i].k = key].v

\* d.get(key, dflt)
Get(d, key, dflt) == IF HasKey(d, key) THEN Lookup(d, key) ELSE dflt

\* exceptions
NoErr == [type |-> "none", what |-> "", names |-> <<>>]
Error(type, what, names) == [type |-> type, what |-> what, names |-> names]
Ok(v) == [err |-> NoErr, val |-> v]
Raise(e) == [err |-> e, val |-> None]

---------------------------------------------------------------------------
(* Python str operations *)

UpperCase == <<"A", "B", "C", "D", "E", "F", "G", "H", "I", "J", "K", "L", "M", "N", "O", "P", "Q", "R", "S", "T", "U", "V", "W", "X", "Y", "Z">>
LowerCase == <<"a", "b", "c", "d", "e", "f", "g", "h", "i", "j", "k", "l", "m", "n", "o", "p", "q", "r", "s", "t", "u", "v", "w", "x", "y", "z">>
Whitespace == {" ", "\t", "\n", "\r", "\f"}

LowerChar(c) ==
  IF \E i \in 1..Len(UpperCase) : UpperCase[i] = c
  THEN LowerCase[CHOOSE i \in 1..Len(UpperCase) : UpperCase[i] = c]
  ELSE c

UpperChar(c) ==
  IF \E i \in 1..Len(LowerCase) : LowerCase[i] = c
  THEN UpperCase[CHOOSE i \in 1..Len(LowerCase) : LowerCase[i] = c]
  ELSE c

\* str.lower()
Lower(s) == [i \in 1..Len(s) |-> LowerChar(s[i])]

\* str.upper()
Upper(s) == [i \in 1..Len(s) |-> UpperChar(s[i])]

RECURSIVE LStrip(_)
LStrip(s) == IF s # <<>> /\ Head(s) \in Whitespace THEN LStrip(Tail(s)) ELSE s

RECURSIVE RStrip(_)
RStrip(s) ==
  IF s # <<>> /\ s[Len(s)] \in Whitespace THEN RStrip(SubSeq(s, 1, Len(s) - 1)) ELSE s

\* str.strip()
Strip(s) == RStrip(LStrip(s))

\* str.endswith(suffix)
EndsWith(s, suffix) ==
  /\ Len(s) >= Len(suffix)
  /\ SubSeq(s, Len(s) - Len(suffix) + 1, Len(s)) = suffix

\* str.rsplit(sep, 1) for a one-character sep: the list of parts
RSplit1(s, sep) ==
  IF \E i \in 1..Len(s) : s[i] = sep
  THEN LET i == CHOOSE j \in 1..Len(s) :
                  s[j] = sep /\ \A m \in (j + 1)..Len(s) : s[m] # sep
       IN <<SubSeq(s, 1, i - 1), SubSeq(s, i + 1, Len(s))>>
  ELSE <<s>>

\* os.path.join(a, b) on a POSIX host
PathJoin(a, b) ==
  IF b # <<>> /\ Head(b) = "/" THEN b
  ELSE IF a = <<>> \/ a[Len(a)] = "/" THEN a \o b
  ELSE a \o <<"/">> \o b

---------------------------------------------------------------------------
(* model_desc.py: the descriptor table.  Only the entries the resolver    *)
(* reads to decide anything are kept (id, name, model_file, config_file); *)
(* url, doc, file_type and the hash go to the downloader unexamined.      *)

MODEL_DESC == <<
  [id |-> <<"c", "l", "a", "r", "a", "_", "p", "t", "_", "p", "r", "o", "s", "t", "a", "t", "e", "_", "m", "r", "i", "_", "s", "e", "g", "m", "e", "n", "t", "a", "t", "i", "o", "n", "_", "1">>,
   name |-> <<"c", "l", "a", "r", "a", "_", "p", "t", "_", "p", "r", "o", "s", "t", "a", "t", "e", "_", "m", "r", "i", "_", "s", "e", "g", "m", "e", "n", "t", "a", "t", "i", "o", "n">>,
   model_file |-> <<"m", "o", "d", "e", "l", "s", "/", "m", "o", "d", "e", "l", ".", "p", "t">>],
  [id |-> <<"c", "l", "a", "r", "a", "_", "p", "t", "_", "c", "o", "v", "i", "d", "1", "9", "_", "c", "t", "_", "l", "e", "s", "i", "o", "n", "_", "s", "e", "g", "m", "e", "n", "t", "a", "t", "i", "o", "n", "_", "1">>,
   name |-> <<"c", "l", "a", "r", "a", "_", "p", "t", "_", "c", "o", "v", "i", "d", "1", "9", "_", "c", "t", "_", "l", "e", "s", "i", "o", "n", "_", "s", "e", "g", "m", "e", "n", "t", "a", "t", "i", "o", "n">>,
   model_file |-> <<"m", "o", "d", "e", "l", "s", "/", "m", "o", "d", "e", "l", ".", "p", "t">>],
  [id |-> <<"c", "l", "a", "r", "a", "_", "p", "t", "_", "f", "e", "d", "_", "l", "e", "a", "r", "n", "i", "n", "g", "_", "b", "r", "a", "i", "n", "_", "t", "u", "m", "o", "r", "_", "m", "r", "i", "_", "s", "e", "g", "m", "e", "n", "t", "a", "t", "i", "o", "n", "_", "1">>,
   name |-> <<"c", "l", "a", "r", "a", "_", "p", "t", "_", "f", "e", "d", "_", "l", "e", "a", "r", "n", "i", "n", "g", "_", "b", "r", "a", "i", "n", "_", "t", "u", "m", "o", "r", "_", "m", "r", "i", "_", "s", "e", "g", "m", "e", "n", "t", "a", "t", "i", "o", "n">>,
   model_file |-> <<"m", "o", "d", "e", "l", "s", "/", "s", "e", "r", "v", "e", "r", "/", "b", "e", "s", "t", "_", "F", "L", "_", "g", "l", "o", "b", "a", "l", "_", "m", "o", "d", "e", "l", ".", "p", "t">>],
  [id |-> <<"c", "l", "a", "r", "a", "_", "p", "t", "_", "p", "a", "t", "h", "o", "l", "o", "g", "y", "_", "m", "e", "t", "a", "s", "t", "a", "s", "i", "s", "_", "d", "e", "t", "e", "c", "t", "i", "o", "n", "_", "1">>,
   name |-> <<"c", "l", "a", "r", "a", "_", "p", "t", "_", "p", "a", "t", "h", "o", "l", "o", "g", "y", "_", "m", "e", "t", "a", "s", "t", "a", "s", "i", "s", "_", "d", "e", "t", "e", "c", "t", "i", "o", "n">>,
   model_file |-> <<"m", "o", "d", "e", "l", "s", "/", "m", "o", "d", "e", "l", ".", "p", "t">>,
   config_file |-> <<"c", "o", "n", "f", "i", "g", "/", "c", "o", "n", "f", "i", "g", "_", "t", "r", "a", "i", "n", ".", "j", "s", "o", "n">>],
  [id |-> <<"c", "l", "a", "r", "a", "_", "p", "t", "_", "b", "r", "a", "i", "n", "_", "m", "r", "i", "_", "s", "e", "g", "m", "e", "n", "t", "a", "t", "i", "o", "n", "_", "1">>,
   name |-> <<"c", "l", "a", "r", "a", "_", "p", "t", "_", "b", "r", "a", "i", "n", "_", "m", "r", "i", "_", "s", "e", "g", "m", "e", "n", "t", "a", "t", "i", "o", "n">>,
   model_file |-> <<"m", "o", "d", "e", "l", "s", "/", "m", "o", "d", "e", "l", ".", "p", "t">>],
  [id |-> <<"c", "l", "a", "r", "a", "_", "p", "t", "_", "b", "r", "a", "i", "n", "_", "m", "r", "i", "_", "s", "e", "g", "m", "e", "n", "t", "a", "t", "i", "o", "n", "_", "t", "1", "c", "_", "1">>,
   name |-> <<"c", "l", "a", "r", "a", "_", "p", "t", "_", "b", "r", "a", "i", "n", "_", "m", "r", "i", "_", "s", "e", "g", "m", "e", "n", "t", "a", "t", "i", "o", "n", "_", "t", "1", "c">>,
   model_file |-> <<"m", "o", "d", "e", "l", "s", "/", "m", "o", "d", "e", "l", ".", "p", "t">>],
  [id |-> <<"c", "l", "a", "r", "a", "_", "p", "t", "_", "l", "i", "v", "e", "r", "_", "a", "n", "d", "_", "t", "u", "m", "o", "r", "_", "c", "t", "_", "s", "e", "g", "m", "e", "n", "t", "a", "t", "i", "o", "n", "_", "1">>,
   name |-> <<"c", "l", "a", "r", "a", "_", "p", "t", "_", "l", "i", "v", "e", "r", "_", "a", "n", "d", "_", "t", "u", "m", "o", "r", "_", "c", "t", "_", "s", "e", "g", "m", "e", "n", "t", "a", "t", "i", "o", "n">>,
   model_file |-> <<"m", "o", "d", "e", "l", "s", "/", "m", "o", "d", "e", "l", ".", "p", "t">>,
   config_file |-> <<"c", "o", "n", "f", "i", "g", "/", "c", "o", "n", "f", "i", "g", "_", "t", "r", "a", "i", "n", ".", "j", "s", "o", "n">>],
  [id |-> <<"c", "l", "a", "r", "a", "_", "p", "t", "_", "p", "a", "n", "c", "r", "e", "a", "s", "_", "a", "n", "d", "_", "t", "u", "m", "o", "r", "_", "c", "t", "_", "s", "e", "g", "m", "e", "n", "t", "a", "t", "i", "o", "n", "_", "1">>,
   name |-> <<"c", "l", "a", "r", "a", "_", "p", "t", "_", "p", "a", "n", "c", "r", "e", "a", "s", "_", "a", "n", "d", "_", "t", "u", "m", "o", "r", "_", "c", "t", "_", "s", "e", "g", "m", "e", "n", "t", "a", "t", "i", "o", "n">>,
   model_file |-> <<"m", "o", "d", "e", "l", "s", "/", "m", "o", "d", "e", "l", ".", "p", "t">>,
   config_file |-> <<"c", "o", "n", "f", "i", "g", "/", "c", "o", "n", "f", "i", "g", "_", "t", "r", "a", "i", "n", ".", "j", "s", "o", "n">>] >>

DescV(d) == [t |-> "desc", d |-> d]

\* MODEL_DESC[n] for a Python int n: 0-based, negative n counts from the end
TupleIndex(n) ==
  IF n >= 0 /\ n < Len(MODEL_DESC) THEN Ok(DescV(MODEL_DESC[n + 1]))
  ELSE IF n < 0 /\ n >= -Len(MODEL_DESC) THEN Ok(DescV(MODEL_DESC[Len(MODEL_DESC) + n + 1]))
  ELSE Raise(Error("IndexError", "tuple index out of range", <<>>))

UnknownDesc == Error("ValueError", "Unknown MODEL_DESC request", <<>>)

\* the comparison key of line 41 without the strip
KeyNoStrip(s) == Lower(s)

\* idx.strip().lower()
LookupKey(s) == Lower(Strip(s))

\* the loop of lines 42-44, from table entry i on
RECURSIVE ScanDesc(_, _)
ScanDesc(key, i) ==
  IF i > Len(MODEL_DESC) THEN Raise(UnknownDesc)
  ELSE IF LookupKey(MODEL_DESC[i].id) = key THEN Ok(DescV(MODEL_DESC[i]))
  ELSE ScanDesc(key, i + 1)

_get_model_spec(i) ==
  IF i.t = "int" THEN TupleIndex(i.n)
  ELSE IF i.t = "str" THEN ScanDesc(LookupKey(i.s), 1)
  ELSE Raise(UnknownDesc)

---------------------------------------------------------------------------
(* mmars.py: _get_val *)

\* the loop of lines 200-205 taken in reverse iteration order
RECURSIVE ScanSubDictsReversed(_, _, _, _)

RECURSIVE _get_val(_, _, _)

\* the loop of lines 200-205, from entry i on
RECURSIVE ScanSubDicts(_, _, _, _)
ScanSubDicts(d, key, dflt, i) ==
  IF i > Len(d.items) THEN dflt
  ELSE LET val == d.items[i].v
       IN IF IsMapping(val)
          THEN LET found_val == _get_val(val, key, None)
               IN IF found_val.t # "none" THEN found_val
                  ELSE ScanSubDicts(d, key, dflt, i + 1)
          ELSE ScanSubDicts(d, key, dflt, i + 1)

ScanSubDictsReversed(d, key, dflt, i) ==
  IF i < 1 THEN dflt
  ELSE LET val == d.items[i].v
       IN IF IsMapping(val)
          THEN LET found_val == _get_val(val, key, None)
               IN IF found_val.t # "none" THEN found_val
                  ELSE ScanSubDictsReversed(d, key, dflt, i - 1)
          ELSE ScanSubDictsReversed(d, key, dflt, i - 1)

\* _get_val iterating the entries last to first
GetValReversed(d, key, dflt) ==
  IF HasKey(d, key) THEN Lookup(d, key)
  ELSE ScanSubDictsReversed(d, key, dflt, Len(d.items))

_get_val(d, key, dflt) ==
  IF HasKey(d, key) THEN Lookup(d, key)
  ELSE ScanSubDicts(d, key, dflt, 1)

\* the default of the parameters `key` and `model_key`
MODEL_KEY == "model"

---------------------------------------------------------------------------
(* Inputs of _get_val: every nested mapping with at most MaxEntries        *)
(* entries in all, nested at most MaxDepth deep, over the keys of Keys.    *)
(* A mapping is drawn as the pre-order list of its entries (depth, key,    *)
(* kind of value) and decoded.  An int leaf carries its pre-order position *)
(* so that every int in a mapping is distinct and the occurrence a search  *)
(* returned can be told from its value.  A value that is not a mapping is  *)
(* only ever inspected under the searched key, so None is drawn there only.*)

MaxEntries == 5
MaxDepth == 3
Keys == {MODEL_KEY, "a", "b"}
Kinds(k) == IF k = MODEL_KEY THEN {"none", "int", "map"} ELSE {"int", "map"}

RECURSIVE ParentIdx(_, _, _)
ParentIdx(p, i, d) ==
  IF i = 0 THEN 0 ELSE IF p[i].d < d THEN i ELSE ParentIdx(p, i - 1, d)

\* entry e may follow the pre-order list p: it is a first top-level entry, a
\* first child of the mapping p ends with, or a further entry of an enclosing
\* mapping, and its key is new in the mapping it joins
CanAppend(p, e) ==
  /\ e.d >= 1 /\ e.d <= MaxDepth
  /\ IF p = <<>> THEN e.d = 1
     ELSE /\ e.d <= p[Len(p)].d + 1
          /\ (e.d = p[Len(p)].d + 1 => p[Len(p)].kind = "map")
  /\ \A j \in (ParentIdx(p, Len(p), e.d) + 1)..Len(p) : p[j].d = e.d => p[j].k # e.k

RECURSIVE SubEnd(_, _, _)
SubEnd(p, i, j) ==
  IF j > Len(p) \/ p[j].d <= p[i].d THEN j - 1 ELSE SubEnd(p, i, j + 1)

RECURSIVE Items(_, _, _)
Items(p, lo, hi) ==
  IF lo > hi THEN <<>>
  ELSE LET e == SubEnd(p, lo, lo + 1)
           v == CASE p[lo].kind = "none" -> None
                  [] p[lo].kind = "int" -> IntV(lo)
                  [] OTHER -> MapV(Items(p, lo + 1, e))
       IN <<Entry(p[lo].k, v)>> \o Items(p, e + 1, hi)

Decode(p) == MapV(Items(p, 1, Len(p)))

RECURSIVE DrawMapping(_, _)
DrawMapping(p, n) ==
  \/ input_dict = Decode(p)
  \/ /\ n > 0
     /\ \E d \in 1..MaxDepth, k \in Keys :
          \E kind \in Kinds(k) :
            LET e == [d |-> d, k |-> k, kind |-> kind]
            IN CanAppend(p, e) /\ DrawMapping(Append(p, e), n - 1)

---------------------------------------------------------------------------
(* Values of the variables a specification does not use *)

IdleLookup == idx = None /\ spec_ret = None
IdleGetVal == input_dict = None /\ default = None /\ found = None
IdleLoad ==
  /\ item = None /\ mmar_dir = None /\ pretrained = TRUE /\ weights_only = FALSE
  /\ weights_file = None /\ json_rel = None /\ json_doc = None
  /\ model_dir = None /\ model_file = None /\ model_dict = None
  /\ model_config = None /\ model_cls = None /\ model_inst = None
  /\ opened = {} /\ searched = {} /\ warned = {} /\ ret = None /\ err = NoErr

---------------------------------------------------------------------------
(* Specification SpecGetVal: one call of _get_val *)

InitGetVal ==
  /\ pc = "search"
  /\ DrawMapping(<<>>, MaxEntries)
  /\ default \in {None, EmptyMap}
  /\ found = None
  /\ IdleLookup /\ IdleLoad

GetVal ==
  /\ pc = "search"
  /\ found' = _get_val(input_dict, MODEL_KEY, default)
  /\ pc' = "done"
  /\ UNCHANGED <<input_dict, default, lookupVars, loadVars>>

NextGetVal == GetVal

SpecGetVal == InitGetVal /\ [][NextGetVal]_vars

---------------------------------------------------------------------------
(* Specification SpecLookup: one call of _get_model_spec *)

MaxPad == 1
PadChars == {" ", "\t", "\n"}
Pads == UNION {[1..n -> PadChars] : n \in 0..MaxPad}

\* spellings of a descriptor: its id exactly, in other letter case, and near
\* misses (one character short, one long, a blank inside, the display name)
Spellings(d) ==
  { d.id, Upper(d.id), <<UpperChar(Head(d.id))>> \o Tail(d.id),
    SubSeq(d.id, 1, Len(d.id) - 1), d.id \o <<"x">>,
    <<Head(d.id), " ">> \o Tail(d.id), d.name }

StrInputs ==
  { StrV(l \o s \o r) :
      l \in Pads, r \in Pads,
      s \in {<<>>} \cup UNION {Spellings(MODEL_DESC[j]) : j \in 1..Len(MODEL_DESC)} }

IntInputs == { IntV(n) : n \in (-Len(MODEL_DESC) - 1)..Len(MODEL_DESC) }

InitLookup ==
  /\ pc = "lookup"
  /\ idx \in StrInputs \cup IntInputs \cup {None}
  /\ spec_ret = None
  /\ IdleGetVal /\ IdleLoad

GetModelSpec ==
  /\ pc = "lookup"
  /\ spec_ret' = _get_model_spec(idx)
  /\ pc' = "done"
  /\ UNCHANGED <<idx, getValVars, loadVars>>

NextLookup == GetModelSpec

SpecLookup == InitLookup /\ [][NextLookup]_vars

---------------------------------------------------------------------------
(* mmars.py: download_mmar and load_from_mmar *)

Missing == [t |-> "missing"]
ScriptModule == [t |-> "script"]
ClassV(module, name) == [t |-> "class", module |-> module, name |-> name]

\* item.get(field, dflt) on a descriptor
DescGet(d, field, dflt) == IF field \in DOMAIN d THEN StrV(d[field]) ELSE dflt

\* what torch.hub.get_dir() returns
HubDir == <<"/", "h", "u", "b">>

\* the names monai.networks.nets exports (monai_nets.__dict__)
Registry == { <<"U", "N", "e", "t">> }

\* the (module, attribute) pairs optional_import can resolve
Importable == { <<<<"n", "e", "t", "s">>, <<"M", "y", "N", "e", "t">>>> }

DefaultConfigFile == StrV(<<"c", "o", "n", "f", "i", "g", "_", "t", "r", "a", "i", "n", ".", "j", "s", "o", "n">>)

\* lines 124-125
ResolveItem ==
  /\ pc = "call"
  /\ IF item.t = "desc"
     THEN pc' = "download" /\ UNCHANGED <<item, err>>
     ELSE LET r == _get_model_spec(item)
          IN IF r.err = NoErr
             THEN item' = r.val /\ pc' = "download" /\ UNCHANGED err
             ELSE err' = r.err /\ pc' = "done" /\ UNCHANGED item
  /\ UNCHANGED <<mmar_dir, pretrained, weights_only, envVars, localVars,
                 opened, searched, warned, ret, lookupVars, getValVars>>

\* lines 126-127, with download_mmar (lines 70-90) inlined.  Whether torch.hub
\* has get_dir and whether the download and extraction succeed is the
\* environment's choice.
DownloadMmar ==
  /\ pc = "download"
  /\ \E has_home \in BOOLEAN, fetched \in BOOLEAN :
       IF ~Truthy(mmar_dir) /\ ~has_home
       THEN /\ err' = Error("ValueError", "no suitable default directory", <<>>)
            /\ pc' = "done"
            /\ UNCHANGED <<model_dir, model_file>>
       ELSE IF ~fetched
       THEN /\ err' = Error("RuntimeError", "download_and_extract failed", <<>>)
            /\ pc' = "done"
            /\ UNCHANGED <<model_dir, model_file>>
       ELSE LET dir == IF Truthy(mmar_dir) THEN mmar_dir.s
                       ELSE PathJoin(HubDir, <<"m", "m", "a", "r", "s">>)
                md == PathJoin(dir, item.d.id)
            IN /\ model_dir' = StrV(md)
               /\ model_file' = StrV(PathJoin(md, item.d.model_file))
               /\ pc' = "load"
               /\ UNCHANGED err
  /\ UNCHANGED <<argVars, envVars, model_dict, model_config, model_cls, model_inst,
                 opened, searched, warned, ret, lookupVars, getValVars>>

\* line 131
IsScriptFile(f) == EndsWith(f, <<".", "t", "s">>)

\* the warnings of lines 132-135 with the tests negated
ScriptWarningsNegated ==
  (IF pretrained THEN {"pretrained"} ELSE {})
    \cup (IF ~weights_only THEN {"weights_only"} ELSE {})

\* the warnings of lines 132-135
ScriptWarnings ==
  (IF ~pretrained THEN {"pretrained"} ELSE {})
    \cup (IF weights_only THEN {"weights_only"} ELSE {})

\* lines 130-139
LoadWeights ==
  /\ pc = "load"
  /\ IF IsScriptFile(model_file.s)
     THEN /\ warned' = ScriptWarnings
          /\ ret' = weights_file
          /\ pc' = "done"
          /\ UNCHANGED model_dict
     ELSE /\ model_dict' = weights_file
          /\ pc' = "weights"
          /\ UNCHANGED <<warned, ret>>
  /\ UNCHANGED <<argVars, envVars, model_dir, model_file, model_config, model_cls,
                 model_inst, opened, searched, err, lookupVars, getValVars>>

\* line 141 always returning the whole dictionary
WeightsWhole(d) == d

\* line 141: model_dict.get(model_key, model_dict)
Weights(d) == Get(d, MODEL_KEY, d)

\* lines 140-141
WeightsOnly ==
  /\ pc = "weights"
  /\ IF weights_only
     THEN ret' = Weights(model_dict) /\ pc' = "done"
     ELSE pc' = "search1" /\ UNCHANGED ret
  /\ UNCHANGED <<argVars, envVars, localVars, opened, searched, warned, err,
                 lookupVars, getValVars>>

\* line 144
SearchTrainConf ==
  /\ pc = "search1"
  /\ model_config' = _get_val(Get(model_dict, "train_conf", EmptyMap), MODEL_KEY, EmptyMap)
  /\ searched' = searched \cup {1}
  /\ pc' = "search2"
  /\ UNCHANGED <<argVars, envVars, model_dir, model_file, model_dict, model_cls,
                 model_inst, opened, warned, ret, err, lookupVars, getValVars>>

\* the test of lines 145 and 152 as `model_config is None`
IsNone(v) == v.t = "none"

\* the test of lines 145 and 152 without the `not`
NotNegated(v) == Truthy(v)

\* lines 145 and 152: `not model_config`
Empty(v) == ~Truthy(v)

\* line 147
JsonPath == PathJoin(model_dir.s, DescGet(item.d, "config_file", DefaultConfigFile).s)

\* whether open(path) finds a file
FileExists(path) == json_doc # Missing /\ path = PathJoin(model_dir.s, json_rel)

\* lines 145-151
SearchConfigFile ==
  /\ pc = "search2"
  /\ IF Empty(model_config)
     THEN /\ opened' = opened \cup {JsonPath}
          /\ IF FileExists(JsonPath)
             THEN /\ model_config' = _get_val(json_doc, MODEL_KEY, EmptyMap)
                  /\ searched' = searched \cup {2}
                  /\ pc' = "search3"
                  /\ UNCHANGED err
             ELSE /\ err' = Error("FileNotFoundError", "No such file or directory", <<>>)
                  /\ pc' = "done"
                  /\ UNCHANGED <<model_config, searched>>
     ELSE pc' = "search3" /\ UNCHANGED <<model_config, opened, searched, err>>
  /\ UNCHANGED <<argVars, envVars, model_dir, model_file, model_dict, model_cls,
                 model_inst, warned, ret, lookupVars, getValVars>>

\* lines 152-154
SearchModelDict ==
  /\ pc = "search3"
  /\ IF Empty(model_config)
     THEN /\ model_config' = _get_val(model_dict, MODEL_KEY, EmptyMap)
          /\ searched' = searched \cup {3}
     ELSE UNCHANGED <<model_config, searched>>
  /\ pc' = "check"
  /\ UNCHANGED <<argVars, envVars, model_dir, model_file, model_dict, model_cls,
                 model_inst, opened, warned, ret, err, lookupVars, getValVars>>

\* the test of line 156 without the truth test
UsableConfigLoose(c) == IsMapping(c)

\* line 156: model_config and isinstance(model_config, Mapping)
UsableConfig(c) == Truthy(c) /\ IsMapping(c)

\* lines 157-160: the message names item.get(CONFIG_FILE) and item.get(MODEL_FILE)
ConfigError ==
  Error("ValueError", "Could not load model config dictionary",
        <<DescGet(item.d, "config_file", None), DescGet(item.d, "model_file", None)>>)

\* lines 156-160
CheckConfig ==
  /\ pc = "check"
  /\ IF UsableConfig(model_config)
     THEN pc' = "class" /\ UNCHANGED err
     ELSE err' = ConfigError /\ pc' = "done"
  /\ UNCHANGED <<argVars, envVars, localVars, opened, searched, warned, ret,
                 lookupVars, getValVars>>

\* lines 168-175: the class at a dotted path
ClassAtPath(path) ==
  LET parts == RSplit1(path, ".")
  IN IF Len(parts) # 2
     THEN Raise(Error("ValueError", "not enough values to unpack", <<>>))
     ELSE IF <<parts[1], parts[2]>> \in Importable
     THEN Ok(ClassV(parts[1], parts[2]))
     ELSE Raise(Error("ValueError", "make sure MMAR's sub-folders are on the PYTHONPATH",
                      <<StrV(path)>>))

\* lines 164-165: the class of that name in monai.networks.nets
ClassByName(name) ==
  IF name \in Registry THEN Ok(ClassV(<<"m", "o", "n", "a", "i", ".", "n", "e", "t", "w", "o", "r", "k", "s", ".", "n", "e", "t", "s">>, name))
  ELSE Raise(Error("KeyError", "no such name in monai.networks.nets", <<StrV(name)>>))

NoClassError == Error("ValueError", "Could not load model config", <<>>)

\* lines 163-177
ModelClass(c) ==
  IF Truthy(Get(c, "name", None)) THEN ClassByName(Lookup(c, "name").s)
  ELSE IF Truthy(Get(c, "path", None)) THEN ClassAtPath(Lookup(c, "path").s)
  ELSE Raise(NoClassError)

\* lines 162-177
ResolveClass ==
  /\ pc = "class"
  /\ LET r == ModelClass(model_config)
     IN IF r.err = NoErr
        THEN model_cls' = r.val /\ pc' = "instantiate" /\ UNCHANGED err
        ELSE err' = r.err /\ pc' = "done" /\ UNCHANGED model_cls
  /\ UNCHANGED <<argVars, envVars, model_dir, model_file, model_dict, model_config,
                 model_inst, opened, searched, warned, ret, lookupVars, getValVars>>

\* lines 180-185
Instantiate ==
  /\ pc = "instantiate"
  /\ LET model_kwargs == Get(model_config, "args", None)
     IN model_inst' = [t |-> "module", cls |-> model_cls,
                       kwargs |-> IF Truthy(model_kwargs) THEN model_kwargs ELSE EmptyMap,
                       state |-> None]
  /\ pc' = "load_state"
  /\ UNCHANGED <<argVars, envVars, model_dir, model_file, model_dict, model_config,
                 model_cls, opened, searched, warned, ret, err, lookupVars, getValVars>>

\* lines 186-190.  Whether the weights fit the instantiated module is the
\* runtime's verdict.
LoadStateDict ==
  /\ pc = "load_state"
  /\ IF pretrained
     THEN \E fits \in BOOLEAN :
            IF fits
            THEN /\ model_inst' = [model_inst EXCEPT !.state = Weights(model_dict)]
                 /\ ret' = model_inst'
                 /\ UNCHANGED err
            ELSE /\ err' = Error("RuntimeError", "load_state_dict mismatch", <<>>)
                 /\ UNCHANGED <<model_inst, ret>>
     ELSE ret' = model_inst /\ UNCHANGED <<model_inst, err>>
  /\ pc' = "done"
  /\ UNCHANGED <<argVars, envVars, model_dir, model_file, model_dict, model_config,
                 model_cls, opened, searched, warned, lookupVars, getValVars>>

---------------------------------------------------------------------------
(* Specification Spec: one call of load_from_mmar.  The arguments and the  *)
(* environment (the weights file, the JSON config on disk) are drawn in    *)
(* Init.                                                                    *)

MaxNest == 1

Absent == [t |-> "absent"]

\* a model config naming a registered network, tagged with the source it is in
Named(src) ==
  MapV(<<Entry("name", StrV(<<"U", "N", "e", "t">>)), Entry("args", MapV(<<Entry("src", IntV(src))>>))>>)

\* a model config with the dotted path of an importable class
Pathed(src) ==
  MapV(<<Entry("path", StrV(<<"n", "e", "t", "s", ".", "M", "y", "N", "e", "t">>)), Entry("args", MapV(<<Entry("src", IntV(src))>>))>>)

\* the shapes of model config lines 163-177 tell apart
Configs ==
  { Named(1), Pathed(1),
    MapV(<<Entry("name", StrV(<<"N", "o", "S", "u", "c", "h", "N", "e", "t">>))>>),
    MapV(<<Entry("name", StrV(<<"U", "N", "e", "t">>)), Entry("path", StrV(<<"n", "e", "t", "s", ".", "M", "y", "N", "e", "t">>))>>),
    MapV(<<Entry("name", StrV(<<"N", "o", "S", "u", "c", "h", "N", "e", "t">>)), Entry("path", StrV(<<"n", "e", "t", "s", ".", "M", "y", "N", "e", "t">>))>>),
    MapV(<<Entry("name", StrV(<<>>)), Entry("path", StrV(<<"n", "e", "t", "s", ".", "M", "y", "N", "e", "t">>))>>),
    MapV(<<Entry("path", StrV(<<"n", "e", "t", "s", ".", "G", "o", "n", "e">>)), Entry("args", EmptyMap)>>),
    MapV(<<Entry("path", StrV(<<"M", "y", "N", "e", "t">>))>>),
    MapV(<<Entry("args", MapV(<<Entry("k", IntV(1))>>))>>) }

\* a state dict
StateDict == MapV(<<Entry("conv.weight", IntV(7))>>)

\* what a source holds under the model key
TrainConfVals == {Absent, None, EmptyMap, IntV(1)} \cup Configs
JsonVals == {Absent, None, EmptyMap, IntV(2), Named(2), Pathed(2)}
DictVals == {Absent, None, EmptyMap, IntV(3), StateDict, Named(3), Pathed(3)}

\* the entries of a mapping holding x under the model key n levels down
RECURSIVE Wrap(_, _)
Wrap(x, n) ==
  IF n > 0 THEN <<Entry("a", MapV(Wrap(x, n - 1)))>>
  ELSE IF x = Absent THEN <<>>
  ELSE <<Entry(MODEL_KEY, x)>>

Nests == 0..MaxNest

TrainConfs == {Absent} \cup {MapV(Wrap(x, n)) : x \in TrainConfVals, n \in Nests}
JsonDocs == {MapV(Wrap(x, n)) : x \in JsonVals, n \in Nests}
JsonRels == {<<"c", "o", "n", "f", "i", "g", "_", "t", "r", "a", "i", "n", ".", "j", "s", "o", "n">>, <<"c", "o", "n", "f", "i", "g", "/", "c", "o", "n", "f", "i", "g", "_", "t", "r", "a", "i", "n", ".", "j", "s", "o", "n">>}

WeightsFiles ==
  { MapV(Wrap(x, n) \o (IF tc = Absent THEN <<>> ELSE <<Entry("train_conf", tc)>>)) :
      x \in DictVals, n \in Nests, tc \in TrainConfs }

CustomDesc(file) == DescV([id |-> <<"m", "y", "_", "m", "m", "a", "r">>, name |-> <<"m", "y", "_", "m", "m", "a", "r">>, model_file |-> file])

\* a table entry by id (in another spelling) and one by position
TableItems == { StrV(<<" ", "C", "l", "a", "r", "a", "_", "P", "T", "_", "P", "r", "o", "s", "t", "a", "t", "e", "_", "M", "R", "I", "_", "S", "e", "g", "m", "e", "n", "t", "a", "t", "i", "o", "n", "_", "1", "\n">>), IntV(3) }
ScriptItems == { CustomDesc(<<"m", "o", "d", "e", "l", ".", "t", "s">>), CustomDesc(<<".", "t", "s">>) }
OtherItems == { CustomDesc(<<"m", "o", "d", "e", "l", ".", "p", "t", "s">>), CustomDesc(<<"t", "s">>), StrV(<<"c", "l", "a", "r", "a", "_", "p", "t", "_", "p", "r", "o", "s", "t", "a", "t", "e">>), IntV(8), None }

FreshCall ==
  /\ pc = "call"
  /\ model_dir = None /\ model_file = None /\ model_dict = None
  /\ model_config = None /\ model_cls = None /\ model_inst = None
  /\ opened = {} /\ searched = {} /\ warned = {} /\ ret = None /\ err = NoErr
  /\ IdleLookup /\ IdleGetVal

Init ==
  /\ FreshCall
  /\ pretrained \in BOOLEAN /\ weights_only \in BOOLEAN
  /\ \/ /\ item \in TableItems
        /\ mmar_dir = StrV(<<".">>)
        /\ weights_file \in WeightsFiles
        /\ \/ json_doc = Missing /\ json_rel = <<"c", "o", "n", "f", "i", "g", "_", "t", "r", "a", "i", "n", ".", "j", "s", "o", "n">>
           \/ json_doc \in JsonDocs /\ json_rel \in JsonRels
     \/ /\ item \in ScriptItems \cup OtherItems
        /\ mmar_dir \in {None, StrV(<<".">>)}
        /\ weights_file = (IF item \in ScriptItems THEN ScriptModule
                           ELSE MapV(<<Entry(MODEL_KEY, StateDict)>>))
        /\ json_doc = Missing /\ json_rel = <<"c", "o", "n", "f", "i", "g", "_", "t", "r", "a", "i", "n", ".", "j", "s", "o", "n">>

Next ==
  \/ ResolveItem
  \/ DownloadMmar
  \/ LoadWeights
  \/ WeightsOnly
  \/ SearchTrainConf
  \/ SearchConfigFile
  \/ SearchModelDict
  \/ CheckConfig
  \/ ResolveClass
  \/ Instantiate
  \/ LoadStateDict

Spec == Init /\ [][Next]_vars

---------------------------------------------------------------------------
(* Vocabulary of the properties *)

\* the values found under the model key, in the order the claimed traversal
\* meets them: a mapping that has the key contributes that value alone, any
\* other mapping what its sub-mappings contribute, in iteration order
RECURSIVE Cands(_)
RECURSIVE CandsFrom(_, _)
Cands(d) == IF HasKey(d, MODEL_KEY) THEN <<Lookup(d, MODEL_KEY)>> ELSE CandsFrom(d, 1)
CandsFrom(d, i) ==
  IF i > Len(d.items) THEN <<>>
  ELSE (IF IsMapping(d.items[i].v) THEN Cands(d.items[i].v) ELSE <<>>) \o CandsFrom(d, i + 1)

\* the first value of s that is not None, dflt if there is none
FirstPresent(s, dflt) ==
  IF \E i \in 1..Len(s) : s[i].t # "none"
  THEN s[CHOOSE i \in 1..Len(s) : s[i].t # "none" /\ \A j \in 1..(i - 1) : s[j].t = "none"]
  ELSE dflt

\* the result the traversal order of the search prescribes
FirstMatch(d, dflt) ==
  IF HasKey(d, MODEL_KEY) THEN Lookup(d, MODEL_KEY)
  ELSE FirstPresent(CandsFrom(d, 1), dflt)

\* the sub-mappings of the mappings of a level, in order
RECURSIVE NextLevel(_)
NextLevel(level) ==
  IF level = <<>> THEN <<>>
  ELSE LET subs == SelectSeq(Head(level).items, LAMBDA e : IsMapping(e.v))
       IN [i \in 1..Len(subs) |-> subs[i].v] \o NextLevel(Tail(level))

\* breadth-first search: the first mapping of the shallowest level that has
\* the key decides
RECURSIVE BfsFrom(_)
BfsFrom(level) ==
  IF level = <<>> THEN [hit |-> FALSE, v |-> None]
  ELSE IF \E i \in 1..Len(level) : HasKey(level[i], MODEL_KEY)
  THEN LET i == CHOOSE j \in 1..Len(level) :
                  HasKey(level[j], MODEL_KEY)
                  /\ \A m \in 1..(j - 1) : ~HasKey(level[m], MODEL_KEY)
       IN [hit |-> TRUE, v |-> Lookup(level[i], MODEL_KEY)]
  ELSE BfsFrom(NextLevel(level))

\* some entry under the key, at any depth, holds None
RECURSIVE HasNullUnderKey(_)
HasNullUnderKey(d) ==
  \E i \in 1..Len(d.items) :
    \/ d.items[i].k = MODEL_KEY /\ d.items[i].v.t = "none"
    \/ IsMapping(d.items[i].v) /\ HasNullUnderKey(d.items[i].v)

\* c and d are the same character up to letter case
SameLetter(c, d) ==
  \/ c = d
  \/ \E i \in 1..Len(UpperCase) : {c, d} = {UpperCase[i], LowerCase[i]}

\* s is id with blanks around it, in any letter case
SpellsId(s, id) ==
  \E a \in 0..(Len(s) - Len(id)) :
    /\ \A i \in 1..a : s[i] \in Whitespace
    /\ \A i \in (a + Len(id) + 1)..Len(s) : s[i] \in Whitespace
    /\ \A i \in 1..Len(id) : SameLetter(s[a + i], id[i])

\* the file name ends in ".ts"
NameEndsInDotTs(f) ==
  Len(f) >= 3 /\ f[Len(f) - 2] = "." /\ f[Len(f) - 1] = "t" /\ f[Len(f)] = "s"

\* the call takes the state-dictionary path and builds a model
BuildsModel == weights_file.t = "map" /\ ~weights_only

TrainConfIn == Get(weights_file, "train_conf", EmptyMap)

\* what each source yields for the model key
Yield1 == FirstMatch(TrainConfIn, EmptyMap)
Yield2 == FirstMatch(json_doc, EmptyMap)
Yield3 == FirstMatch(weights_file, EmptyMap)

\* the config file path of the descriptor under the extraction directory
ConfigPathOf(d) ==
  model_dir.s \o <<"/">> \o (IF "config_file" \in DOMAIN d THEN d.config_file
                             ELSE <<"c", "o", "n", "f", "i", "g", "_", "t", "r", "a", "i", "n", ".", "j", "s", "o", "n">>)

\* the three sources have been gone through
PastSources ==
  BuildsModel /\ pc \in {"check", "class", "instantiate", "load_state", "done"}
  /\ 1 \in searched /\ err.type # "FileNotFoundError"

NothingBuilt == model_cls = None /\ model_inst = None /\ ret = None

---------------------------------------------------------------------------
(* Properties of _get_val, under SpecGetVal *)

FirstSiblingExample ==
  MapV(<<Entry("a", MapV(<<Entry(MODEL_KEY, IntV(2))>>)),
         Entry("b", MapV(<<Entry(MODEL_KEY, IntV(4))>>))>>)

DirectHitExample ==
  MapV(<<Entry("a", MapV(<<Entry("b", MapV(<<Entry(MODEL_KEY, IntV(3))>>))>>)),
         Entry(MODEL_KEY, IntV(4))>>)

C2_BreadthFirst ==
  (pc = "done" /\ ~HasNullUnderKey(input_dict)) =>
    LET b == BfsFrom(<<input_dict>>)
    IN b.hit => found = b.v

\* C3: if the key occurs nowhere the default is returned; if it occurs, the
\* value of the first occurrence met is returned as found, also when that
\* value is None or empty: the search does not go on to later siblings and
\* does not return the default.
C3_NullValueIsFound ==
  pc = "done" =>
    IF Cands(input_dict) = <<>> THEN found = default
    ELSE found = Head(Cands(input_dict))

---------------------------------------------------------------------------
(* Property of _get_model_spec, under SpecLookup *)

\* C8: a string that is a table id with blanks around it, in any letter
\* case, resolves to that descriptor; every other string raises the
\* ValueError of the unknown descriptor and yields no descriptor.
C8_LookupById ==
  (pc = "done" /\ idx.t = "str") =>
    /\ \A j \in 1..Len(MODEL_DESC) :
         SpellsId(idx.s, MODEL_DESC[j].id) => spec_ret = Ok(DescV(MODEL_DESC[j]))
    /\ (~\E j \in 1..Len(MODEL_DESC) : SpellsId(idx.s, MODEL_DESC[j].id))
         => spec_ret.err.type = "ValueError" /\ spec_ret.val = None

C8_Witness ==
  /\ pc = "done" /\ idx.t = "str"
  /\ idx.s # <<>> /\ Head(idx.s) \in Whitespace
  /\ \E i \in 1..Len(idx.s) : \E u \in 1..Len(UpperCase) : idx.s[i] = UpperCase[u]
  /\ spec_ret = Ok(DescV(MODEL_DESC[6]))

---------------------------------------------------------------------------
(* Properties of load_from_mmar, under Spec *)

\* C4 as claimed: when train_conf has an entry under the model key, whatever
\* its value, the config file is never opened and the raw dictionary is
\* never searched.
C4_TrainConfKeyShortCircuits ==
  (BuildsModel /\ HasKey(TrainConfIn, MODEL_KEY)) =>
    /\ opened = {} /\ searched \subseteq {1}
    /\ err.type # "FileNotFoundError"

\* C4 amended: when the search of train_conf yields a non-empty value for
\* the model key, the config file is never opened and the raw dictionary is
\* never searched, so a missing config file cannot fail the call.
C4_NonEmptyTrainConfShortCircuits ==
  (BuildsModel /\ Truthy(Yield1)) =>
    /\ opened = {} /\ searched \subseteq {1}
    /\ err.type # "FileNotFoundError"

C4_Witness ==
  /\ pc = "done" /\ BuildsModel /\ HasKey(TrainConfIn, MODEL_KEY) /\ Truthy(Yield1)
  /\ json_doc = Missing
  /\ opened = {} /\ searched = {1}
  /\ err = NoErr /\ ret.t = "module"

Resolved ==
  IF Truthy(Yield1) THEN Yield1 ELSE IF Truthy(Yield2) THEN Yield2 ELSE Yield3

C7_WeightsOnlyShortCircuits ==
  (weights_only /\ model_file.t = "str" /\ ~NameEndsInDotTs(model_file.s)) =>
    /\ pc \in {"load", "weights", "done"}
    /\ searched = {} /\ opened = {} /\ warned = {}
    /\ model_config = None /\ model_cls = None /\ model_inst = None
    /\ pc = "done" =>
         /\ err = NoErr
         /\ IF \E i \in 1..Len(weights_file.items) : weights_file.items[i].k = MODEL_KEY
            THEN \E i \in 1..Len(weights_file.items) :
                   weights_file.items[i].k = MODEL_KEY /\ ret = weights_file.items[i].v
            ELSE ret = weights_file

C7_Witness ==
  /\ pc = "done" /\ weights_only /\ ~pretrained
  /\ model_dict.t = "map" /\ HasKey(model_dict, MODEL_KEY)
  /\ ret = StateDict

\* line 163 has been passed: the model config is a non-empty mapping
ClassResolved ==
  BuildsModel /\ pc \in {"instantiate", "load_state", "done"}
  /\ 1 \in searched /\ model_config.t = "map" /\ Truthy(model_config)

ResolutionFailed(type) ==
  pc = "done" /\ err.type = type /\ NothingBuilt

FromRegistry(name) ==
  IF name \in Registry
  THEN model_cls = ClassV(<<"m", "o", "n", "a", "i", ".", "n", "e", "t", "w", "o", "r", "k", "s", ".", "n", "e", "t", "s">>, name)
  ELSE ResolutionFailed("KeyError")

PythonPathError ==
  /\ ResolutionFailed("ValueError")
  /\ err.what = "make sure MMAR's sub-folders are on the PYTHONPATH"

FromPath(path) ==
  IF \E m \in Importable : path = m[1] \o <<".">> \o m[2]
  THEN \E m \in Importable :
         path = m[1] \o <<".">> \o m[2] /\ model_cls = ClassV(m[1], m[2])
  ELSE PythonPathError

\* C9: a config that has a "name" entry is resolved in the registry ("name"
\* before "path"; an unknown name is a lookup error), else one that has a
\* "path" entry is imported from the path (an unimportable path is the
\* ValueError about the PYTHONPATH), else the call fails with a ValueError;
\* a failure leaves nothing instantiated and no weights loaded.
C9_NameThenPath ==
  ClassResolved =>
    IF HasKey(model_config, "name") THEN FromRegistry(Lookup(model_config, "name").s)
    ELSE IF HasKey(model_config, "path") THEN FromPath(Lookup(model_config, "path").s)
    ELSE ResolutionFailed("ValueError")

\* What lines 163-177 do instead: "name" and "path" count only when they are
\* non-empty, and a path without a dot ends in the ValueError of the
\* unpacking of line 168, not in the one about the PYTHONPATH.
ClassResolutionAsCoded ==
  ClassResolved =>
    LET name == Get(model_config, "name", None)
        path == Get(model_config, "path", None)
    IN IF Truthy(name) THEN FromRegistry(name.s)
       ELSE IF Truthy(path)
       THEN IF \E i \in 1..Len(path.s) : path.s[i] = "."
            THEN FromPath(path.s)
            ELSE ResolutionFailed("ValueError") /\ ~PythonPathError
       ELSE ResolutionFailed("ValueError")

\* C10: when the weights file name ends in ".ts" the call returns what the
\* script-module loader yields, whatever pretrained and weights_only are;
\* nothing is searched, resolved or instantiated, and a warning is issued for
\* exactly the options set away from their defaults, not an error.
C10_ScriptModulePath ==
  (model_file.t = "str" /\ NameEndsInDotTs(model_file.s)) =>
    /\ pc \in {"load", "done"}
    /\ searched = {} /\ opened = {}
    /\ model_dict = None /\ model_config = None /\ model_cls = None /\ model_inst = None
    /\ err = NoErr
    /\ pc = "done" =>
         /\ ret = weights_file /\ ret = ScriptModule
         /\ ("pretrained" \in warned <=> ~pretrained)
         /\ ("weights_only" \in warned <=> weights_only)
         /\ warned \subseteq {"pretrained", "weights_only"}

C10_Witness ==
  /\ pc = "done" /\ model_file.t = "str" /\ NameEndsInDotTs(model_file.s)
  /\ ~pretrained /\ weights_only
  /\ warned = {"pretrained", "weights_only"}
  /\ ret = ScriptModule /\ err = NoErr

=============================================================================
